---- MODULE Spec2Model ----
(***************************************************************************)
(* Model of src/convert_font.py: WidthConverter.convert_font and the       *)
(* provider converters it dispatches to.                                   *)
(*                                                                         *)
(* Representation                                                          *)
(*   - a character is its codepoint (chr/ord are the bijection between     *)
(*     the two, so a dict keyed by characters is a function on codepoints) *)
(*   - a number is a record [q, repr]: q is the value in quarter pixels    *)
(*     (so q = 4 is the number 1, q = 6 is 1.5), repr is the Python type   *)
(*     that holds it, "int" or "float".  All values of the model are       *)
(*     dyadic, so the float arithmetic of the program is exact on them.    *)
(*   - width_factor is a float, given in half units (2 is the factor 1.0)  *)
(*   - a provider is a record with the keys of the JSON object; a key the  *)
(*     object lacks ("filter") is a field the record lacks                 *)
(*   - a hex string is the sequence of its digits, each 0..15              *)
(*   - a resource file (image, font face, hex archive) is carried, as the  *)
(*     library decodes it, in the field "resource" of the provider that    *)
(*     names it; a provider without the field names a file that is missing *)
(*   - the packs hold no font whose id is another font's id + suffix, so   *)
(*     a conversion never overwrites a definition it reads                 *)
(*   - MaxDepth stands for the interpreter's recursion limit               *)
(***************************************************************************)
EXTENDS Integers, Sequences, FiniteSets, TLC

VARIABLES
    files,          \* the resource pack: font id -> [exists, providers]
    stack,          \* the active convert_font calls, innermost last
    status,         \* "running", "done", "error" or "recursion_error"
    result,         \* what the outermost convert_font returned
    written,        \* the new font ids written so far, in order (history)
    suffix,         \* self.suffix
    width_factor,   \* self.width_factor, in half units
    unihex_mode,    \* self.unihex_mode
    root,           \* the font id given on the command line
    hex_img,        \* read_hex_bitmap: its argument
    hex_width,      \* read_hex_bitmap: its return value
    bmp_provider,   \* convert_bitmap_provider: its argument
    bmp_result      \* convert_bitmap_provider: its return value

vars == <<files, stack, status, result, written, suffix, width_factor,
          unihex_mode, root, hex_img, hex_width, bmp_provider, bmp_result>>

convVars == <<files, stack, status, result, written, suffix, width_factor,
              unihex_mode, root>>
hexVars == <<hex_img, hex_width>>
bmpVars == <<bmp_provider, bmp_result>>

(***************************************************************************)
(* Bounds of the model                                                     *)
(***************************************************************************)
MaxProviders == 3     \* providers in the font under conversion
MaxDepth == 4         \* nested convert_font calls the interpreter allows
MaxRowLen == 2        \* hex digits per bitmap row
MaxPattern == 7       \* bit patterns a bitmap row is built from
MaxCellWidth == 3     \* pixel columns of a glyph cell
MaxHeight == 3        \* logical height of a bitmap provider
MaxInk == 2           \* inked pixels of a sheet

(***************************************************************************)
(* Program constants                                                       *)
(***************************************************************************)
HexRows == 16         \* rows of a unihex glyph
AsciiLimit == 256     \* codepoints above are dropped in mode ascii
NUL == 0              \* "\u0000"
SPACE == 32           \* " "
FixedPoint == 64      \* freetype advances are 26.6 fixed point

(***************************************************************************)
(* Arithmetic helpers                                                      *)
(***************************************************************************)
Max(S) == CHOOSE x \in S : \A y \in S : y <= x
Min(S) == CHOOSE x \in S : \A y \in S : x <= y

RECURSIVE Pow2(_)
Pow2(n) == IF n <= 0 THEN 1 ELSE 2 * Pow2(n - 1)

\* int(n / d) for d > 0: Python's int() truncates toward zero
Trunc(n, d) == IF n >= 0 THEN n \div d ELSE -((-n) \div d)

\* int.bit_length()
RECURSIVE bit_length(_)
bit_length(n) == IF n <= 0 THEN 0 ELSE 1 + bit_length(n \div 2)

\* a & b on the low w bits
RECURSIVE BitAnd(_, _, _)
BitAnd(a, b, w) ==
    IF w = 0 THEN 0
    ELSE (IF a % 2 = 1 /\ b % 2 = 1 THEN 1 ELSE 0)
         + 2 * BitAnd(a \div 2, b \div 2, w - 1)

\* row & -row, for 0 <= row < 2^w: -row is the two's complement of row, whose
\* bits above w are all ones, so w + 1 bits decide the result
LowestSetBit(row, w) == BitAnd(row, Pow2(w + 1) - row, w + 1)

\* int(s, 16) of a digit sequence
RECURSIVE HexVal(_)
HexVal(s) ==
    IF Len(s) = 0 THEN 0
    ELSE 16 * HexVal(SubSeq(s, 1, Len(s) - 1)) + s[Len(s)]

(***************************************************************************)
(* Numbers                                                                 *)
(***************************************************************************)
FloatNum(q) == [q |-> q, repr |-> "float"]
IntNum(q) == [q |-> q, repr |-> "int"]

\* float.is_integer(), and int.is_integer() of Python 3.12
is_integer(v) == v.q % 4 = 0

\* int(v): truncation toward zero
to_int(v) == IntNum(4 * Trunc(v.q, 4))

\* n * self.width_factor for a whole number n
TimesFactor(n, factor) == FloatNum(2 * n * factor)

EmptyMap == [k \in {} |-> FloatNum(0)]

\* dict.update
Update(m, other) ==
    [k \in DOMAIN m \cup DOMAIN other |->
        IF k \in DOMAIN other THEN other[k] ELSE m[k]]

None == [none |-> TRUE]
Error(why) == [error |-> why]
IsError(x) == "error" \in DOMAIN x

(***************************************************************************)
(* read_hex_bitmap                                                         *)
(***************************************************************************)
\* the hex digits of row i
HexRow(img, row_len, i) == SubSeq(img, i * row_len + 1, (i + 1) * row_len)

\* the loop over the rows: <<min_pixel, max_pixel>> after rows i..15
RECURSIVE ScanHexRows(_, _, _, _, _)
ScanHexRows(img, row_len, i, min_pixel, max_pixel) ==
    IF i = HexRows THEN <<min_pixel, max_pixel>>
    ELSE LET row == HexVal(HexRow(img, row_len, i))
             low == bit_length(LowestSetBit(row, 4 * row_len))
             high == bit_length(row)
         IN  IF row = 0
             THEN ScanHexRows(img, row_len, i + 1, min_pixel, max_pixel)
             ELSE ScanHexRows(img, row_len, i + 1,
                              IF low < min_pixel THEN low ELSE min_pixel,
                              IF high > max_pixel THEN high ELSE max_pixel)

\* mutant: the extent without the + 1
read_hex_bitmap_exclusive(img) ==
    LET row_len == Len(img) \div HexRows
        scan == ScanHexRows(img, row_len, 0, row_len * 4, -1)
    IN  IF scan[2] = -1 THEN 0 ELSE scan[2] - scan[1]

\* needs Len(img) >= 16: int("", 16) raises ValueError
read_hex_bitmap(img) ==
    LET row_len == Len(img) \div HexRows
        scan == ScanHexRows(img, row_len, 0, row_len * 4, -1)
    IN  IF scan[2] = -1 THEN 0 ELSE scan[2] - scan[1] + 1

(***************************************************************************)
(* convert_space_provider, convert_ttf_provider                            *)
(***************************************************************************)
\* value * self.width_factor: the product is a float whatever value is
Scaled(value, factor) == FloatNum((value.q * factor) \div 2)

convert_space_provider(old_provider, factor) ==
    [type |-> "space",
     advances |-> [key \in DOMAIN old_provider.advances |->
                      Scaled(old_provider.advances[key], factor)]]

\* resource: what face.get_chars() and face.glyph.advance.x give at the pixel
\* size set, codepoint -> advance in 26.6 fixed point
convert_ttf_provider(old_provider, factor) ==
    IF "resource" \notin DOMAIN old_provider THEN Error("missing resource")
    ELSE LET face == old_provider.resource
             oversample == old_provider.oversample
             kept == {code \in DOMAIN face : code \notin old_provider.skip}
         IN  [type |-> "space",
              advances |-> [code \in kept |->
                  Scaled(FloatNum((4 * face[code]) \div (FixedPoint * oversample)),
                         factor)]]

(***************************************************************************)
(* convert_bitmap_provider, scan_bitmap_col                                *)
(***************************************************************************)
\* img.getpixel((x, y))[-1] != 0: the image is its size and its inked pixels
scan_bitmap_col(img, start_x, start_y, height) ==
    \E i \in 0 .. height - 1 : <<start_x, start_y + i>> \in img.ink

\* mutant: the columns scanned left to right
GlyphWidthLeftmost(img, cursor_x, cursor_y, char_width, char_height) ==
    LET inked == {i \in 0 .. char_width - 1 :
                     scan_bitmap_col(img, cursor_x + i, cursor_y, char_height)}
    IN  IF inked = {} THEN 0 ELSE Min(inked) + 1

\* the for/else over the columns of a cell, right to left
GlyphWidth(img, cursor_x, cursor_y, char_width, char_height) ==
    LET inked == {i \in 0 .. char_width - 1 :
                     scan_bitmap_col(img, cursor_x + i, cursor_y, char_height)}
    IN  IF inked = {} THEN 0 ELSE Max(inked) + 1

\* (int(0.5 + width * height / char_height) + 1) * self.width_factor
BitmapAdvance(width, height, char_height, factor) ==
    TimesFactor(Trunc(char_height + 2 * width * height, 2 * char_height) + 1,
                factor)

\* the cells of the grid in the order the loops visit them
RECURSIVE GridCells(_, _)
GridCells(chars, y) ==
    IF y > Len(chars) THEN <<>>
    ELSE [x \in 1 .. Len(chars[y]) |-> <<y - 1, x - 1>>] \o GridCells(chars, y + 1)

\* result after the first n cells
RECURSIVE BitmapResult(_, _, _, _, _)
BitmapResult(old_provider, img, cells, n, factor) ==
    IF n = 0 THEN EmptyMap
    ELSE LET prev == BitmapResult(old_provider, img, cells, n - 1, factor)
             y == cells[n][1]
             x == cells[n][2]
             line == old_provider.chars[y + 1]
             char == line[x + 1]
             char_height == img.height \div Len(old_provider.chars)
             char_width == img.width \div Len(line)
             width == GlyphWidth(img, x * char_width, y * char_height,
                                 char_width, char_height)
         IN  IF char \in {NUL, SPACE} THEN prev
             ELSE Update(prev, char :> BitmapAdvance(width, old_provider.height,
                                                     char_height, factor))

convert_bitmap_provider(old_provider, factor) ==
    IF "resource" \notin DOMAIN old_provider THEN Error("missing resource")
    ELSE LET img == old_provider.resource
             chars == old_provider.chars
             cells == GridCells(chars, 1)
             char_height == img.height \div Len(chars)
         IN  IF \E y \in 1 .. Len(chars) : Len(chars[y]) = 0
                THEN Error("division by zero")     \* img.width // num_cols
             ELSE IF char_height = 0
                     /\ \E n \in 1 .. Len(cells) :
                          chars[cells[n][1] + 1][cells[n][2] + 1] \notin {NUL, SPACE}
                THEN Error("division by zero")     \* width * height / char_height
             ELSE [type |-> "space",
                   advances |-> BitmapResult(old_provider, img, cells,
                                             Len(cells), factor)]

(***************************************************************************)
(* convert_unihex_provider                                                 *)
(***************************************************************************)
\* the tuple (min_code, max_code, width) built from one size override
Override(override) ==
    LET min_code == override.from
        max_code == override.to
        diff == override.right - override.left
    IN  [min_code |-> min_code, max_code |-> max_code,
         width |-> IF min_code = 0 /\ max_code = 0 THEN 0 ELSE diff + 1]

Overrides(old_provider) ==
    IF "size_overrides" \in DOMAIN old_provider
    THEN [i \in 1 .. Len(old_provider.size_overrides) |->
             Override(old_provider.size_overrides[i])]
    ELSE <<>>

\* the for/else over the overrides: the first range holding code, 0 if none
FirstOverride(overrides, code) ==
    LET hits == {i \in 1 .. Len(overrides) :
                    overrides[i].min_code <= code /\ code <= overrides[i].max_code}
    IN  IF hits = {} THEN 0 ELSE Min(hits)

\* mutant: the advance without the + 1
UnihexAdvanceUnpadded(width, factor) == TimesFactor(Trunc(width, 2), factor)

\* (int(0.5 * width) + 1) * self.width_factor
UnihexAdvance(width, factor) == TimesFactor(Trunc(width, 2) + 1, factor)

\* mutant: the size overrides are looked up before the mode is
RECURSIVE UnihexAdvancesOverrideFirst(_, _, _, _, _)
UnihexAdvancesOverrideFirst(lines, n, overrides, mode, factor) ==
    IF n = 0 THEN EmptyMap
    ELSE LET prev == UnihexAdvancesOverrideFirst(lines, n - 1, overrides, mode, factor)
             code == HexVal(lines[n].code)
             hit == FirstOverride(overrides, code)
         IN  IF hit # 0
                THEN Update(prev, code :> TimesFactor(
                                      Trunc(overrides[hit].width, 2) + 1, factor))
             ELSE IF mode \in {"ascii", "all_named"} /\ code > AsciiLimit THEN prev
             ELSE Update(prev, code :> TimesFactor(
                                   Trunc(read_hex_bitmap(lines[n].img), 2) + 1, factor))

\* advances after the first n lines of the hex file
RECURSIVE UnihexAdvances(_, _, _, _, _)
UnihexAdvances(lines, n, overrides, mode, factor) ==
    IF n = 0 THEN EmptyMap
    ELSE LET prev == UnihexAdvances(lines, n - 1, overrides, mode, factor)
             code == HexVal(lines[n].code)
             hit == FirstOverride(overrides, code)
         IN  IF mode = "ascii" /\ code > AsciiLimit THEN prev
             ELSE IF hit # 0
                THEN Update(prev, code :> UnihexAdvance(overrides[hit].width, factor))
             ELSE IF mode = "all_named" /\ code > AsciiLimit THEN prev
             ELSE Update(prev, code :> UnihexAdvance(read_hex_bitmap(lines[n].img),
                                                     factor))

convert_unihex_provider(old_provider, mode, factor) ==
    IF mode = "none" THEN None
    ELSE IF "resource" \notin DOMAIN old_provider THEN Error("missing resource")
    ELSE LET lines == old_provider.resource
             advances == UnihexAdvances(lines, Len(lines), Overrides(old_provider),
                                        mode, factor)
         IN  IF DOMAIN advances = {} THEN None
             ELSE [type |-> "space", advances |-> advances]

(***************************************************************************)
(* convert_provider, for the kinds that do not recurse                     *)
(***************************************************************************)
convert_provider(provider, mode, factor) ==
    CASE provider.type = "space" -> convert_space_provider(provider, factor)
      [] provider.type = "ttf" -> convert_ttf_provider(provider, factor)
      [] provider.type = "bitmap" -> convert_bitmap_provider(provider, factor)
      [] provider.type = "unihex" -> convert_unihex_provider(provider, mode, factor)
      [] OTHER -> Error("Unknown provider type")

\* what convert_reference_provider returns once convert_font has returned
reference_provider(new_font_id) == [type |-> "reference", id |-> new_font_id]

(***************************************************************************)
(* assure_integers                                                         *)
(***************************************************************************)
\* mutant: every advance is converted, whole or not
assure_integers_always(provider) ==
    IF provider.type # "space" THEN provider
    ELSE [provider EXCEPT !.advances =
            [k \in DOMAIN provider.advances |-> to_int(provider.advances[k])]]

assure_integers(provider) ==
    IF provider.type # "space" THEN provider
    ELSE [provider EXCEPT !.advances =
            [k \in DOMAIN provider.advances |->
                IF is_integer(provider.advances[k])
                THEN to_int(provider.advances[k])
                ELSE provider.advances[k]]]

(***************************************************************************)
(* convert_font: one frame per active call                                 *)
(***************************************************************************)
Frame(font_id) ==
    [font_id |-> font_id, pc |-> "open", old_providers |-> <<>>, i |-> 1,
     space_providers |-> <<>>, other_providers |-> <<>>]

Top == stack[Len(stack)]
ReplaceTop(frame) == SubSeq(stack, 1, Len(stack) - 1) \o <<frame>>

new_font_id(font_id) == font_id \o suffix

\* mutant: the test for a space provider comes before the test for a filter
CollectSpaceFirst(frame, old_provider, new_provider) ==
    LET next == [frame EXCEPT !.i = @ + 1]
        normal == assure_integers(new_provider)
        kept == IF "filter" \in DOMAIN old_provider
                THEN [filter |-> old_provider.filter] @@ normal
                ELSE normal
    IN  IF new_provider = None THEN next
        ELSE IF normal.type = "space"
            THEN [next EXCEPT !.space_providers = Append(@, kept)]
        ELSE [next EXCEPT !.other_providers = Append(@, kept)]

\* the body of the for loop once new_provider is known, and the step to the
\* next provider
Collect(frame, old_provider, new_provider) ==
    LET next == [frame EXCEPT !.i = @ + 1]
        normal == assure_integers(new_provider)
    IN  IF new_provider = None THEN next
        ELSE IF "filter" \in DOMAIN old_provider
            THEN [next EXCEPT !.other_providers =
                    Append(@, [filter |-> old_provider.filter] @@ normal)]
        ELSE IF normal.type = "space"
            THEN [next EXCEPT !.space_providers = Append(@, normal)]
        ELSE [next EXCEPT !.other_providers = Append(@, normal)]

\* mutant: the merge keeps the earlier provider's value on a collision
RECURSIVE MergeSpaceProvidersFirstWins(_)
MergeSpaceProvidersFirstWins(space_providers) ==
    IF Len(space_providers) <= 1 THEN space_providers
    ELSE LET n == Len(space_providers)
             to_merge == space_providers[n]
             rest == SubSeq(space_providers, 1, n - 1)
         IN  MergeSpaceProvidersFirstWins(
                 [rest EXCEPT ![n - 1].advances = Update(to_merge.advances, @)])

\* while len(space_providers) > 1: pop the last one into the one before it
RECURSIVE MergeSpaceProviders(_)
MergeSpaceProviders(space_providers) ==
    IF Len(space_providers) <= 1 THEN space_providers
    ELSE LET n == Len(space_providers)
             to_merge == space_providers[n]
             rest == SubSeq(space_providers, 1, n - 1)
         IN  MergeSpaceProviders(
                 [rest EXCEPT ![n - 1].advances = Update(@, to_merge.advances)])

\* mutant: the new file is opened for writing before the old one is read
OpenFontCreatingFile ==
    /\ status = "running" /\ stack # <<>> /\ Top.pc = "open"
    /\ files' = Update(files, new_font_id(Top.font_id) :> <<>>)
    /\ IF Top.font_id \in DOMAIN files
       THEN /\ stack' = ReplaceTop([Top EXCEPT !.pc = "loop",
                                               !.old_providers = files[Top.font_id]])
            /\ UNCHANGED status
       ELSE /\ status' = "error"
            /\ UNCHANGED stack
    /\ UNCHANGED <<result, written, suffix, width_factor, unihex_mode, root>>
    /\ UNCHANGED <<hexVars, bmpVars>>

\* open(old_path) and rapidjson.load
OpenFont ==
    /\ status = "running" /\ stack # <<>> /\ Top.pc = "open"
    /\ IF Top.font_id \in DOMAIN files
       THEN /\ stack' = ReplaceTop([Top EXCEPT !.pc = "loop",
                                               !.old_providers = files[Top.font_id]])
            /\ UNCHANGED status
       ELSE /\ status' = "error"
            /\ UNCHANGED stack
    /\ UNCHANGED <<files, result, written, suffix, width_factor, unihex_mode, root>>
    /\ UNCHANGED <<hexVars, bmpVars>>

AtProvider ==
    /\ status = "running" /\ stack # <<>> /\ Top.pc = "loop"
    /\ Top.i <= Len(Top.old_providers)

\* one pass of the loop over a provider that is no reference
ConvertProvider ==
    /\ AtProvider
    /\ Top.old_providers[Top.i].type # "reference"
    /\ LET old_provider == Top.old_providers[Top.i]
           new_provider == convert_provider(old_provider, unihex_mode, width_factor)
       IN  IF IsError(new_provider)
           THEN /\ status' = "error"
                /\ UNCHANGED stack
           ELSE /\ stack' = ReplaceTop(Collect(Top, old_provider, new_provider))
                /\ UNCHANGED status
    /\ UNCHANGED <<files, result, written, suffix, width_factor, unihex_mode, root>>
    /\ UNCHANGED <<hexVars, bmpVars>>

\* mutant: the reference is renamed without converting the font it names
CallReferenceWithoutConversion ==
    /\ AtProvider
    /\ Top.old_providers[Top.i].type = "reference"
    /\ stack' = ReplaceTop(Collect(Top, Top.old_providers[Top.i],
                   reference_provider(new_font_id(Top.old_providers[Top.i].id))))
    /\ UNCHANGED <<files, status, result, written, suffix, width_factor,
                   unihex_mode, root>>
    /\ UNCHANGED <<hexVars, bmpVars>>

\* mutant: a font that is being converted already is not converted again
CallReferenceGuarded ==
    /\ AtProvider
    /\ Top.old_providers[Top.i].type = "reference"
    /\ Len(stack) < MaxDepth
    /\ IF \E n \in 1 .. Len(stack) : stack[n].font_id = Top.old_providers[Top.i].id
       THEN stack' = ReplaceTop(Collect(Top, Top.old_providers[Top.i],
                reference_provider(new_font_id(Top.old_providers[Top.i].id))))
       ELSE stack' = Append(stack, Frame(Top.old_providers[Top.i].id))
    /\ UNCHANGED <<files, status, result, written, suffix, width_factor,
                   unihex_mode, root>>
    /\ UNCHANGED <<hexVars, bmpVars>>

\* convert_reference_provider calls convert_font
CallReference ==
    /\ AtProvider
    /\ Top.old_providers[Top.i].type = "reference"
    /\ Len(stack) < MaxDepth
    /\ stack' = Append(stack, Frame(Top.old_providers[Top.i].id))
    /\ UNCHANGED <<files, status, result, written, suffix, width_factor,
                   unihex_mode, root>>
    /\ UNCHANGED <<hexVars, bmpVars>>

\* the interpreter refuses a deeper call: RecursionError
RecursionLimit ==
    /\ AtProvider
    /\ Top.old_providers[Top.i].type = "reference"
    /\ Len(stack) >= MaxDepth
    /\ status' = "recursion_error"
    /\ UNCHANGED <<files, stack, result, written, suffix, width_factor,
                   unihex_mode, root>>
    /\ UNCHANGED <<hexVars, bmpVars>>

\* what convert_font writes under new_font_id
Definition(frame) ==
    frame.other_providers \o MergeSpaceProviders(frame.space_providers)

\* the loop is over: merge, write, return; the caller, if any, goes on with
\* the reference provider it gets
FinishFont ==
    /\ status = "running" /\ stack # <<>> /\ Top.pc = "loop"
    /\ Top.i > Len(Top.old_providers)
    /\ LET id == new_font_id(Top.font_id)
       IN  /\ files' = Update(files, id :> Definition(Top))
           /\ written' = Append(written, id)
           /\ IF Len(stack) = 1
              THEN /\ stack' = <<>>
                   /\ status' = "done"
                   /\ result' = id
              ELSE LET caller == stack[Len(stack) - 1]
                       old_provider == caller.old_providers[caller.i]
                   IN  /\ stack' = SubSeq(stack, 1, Len(stack) - 2)
                                   \o <<Collect(caller, old_provider,
                                                reference_provider(id))>>
                       /\ UNCHANGED <<status, result>>
    /\ UNCHANGED <<suffix, width_factor, unihex_mode, root>>
    /\ UNCHANGED <<hexVars, bmpVars>>

Next ==
    \/ OpenFont
    \/ ConvertProvider
    \/ CallReference
    \/ RecursionLimit
    \/ FinishFont

(***************************************************************************)
(* Resource packs the conversion is run on                                 *)
(***************************************************************************)
\* the n hex digits of v, as a hex file holds them
ToHex(v, n) == [k \in 1 .. n |-> (v \div Pow2(4 * (n - k))) % 16]

\* the digits of a glyph whose row r holds rows[r], and 0 where rows is silent
RECURSIVE HexImage(_, _, _)
HexImage(row_len, rows, r) ==
    IF r = HexRows THEN <<>>
    ELSE ToHex(IF r \in DOMAIN rows THEN rows[r] ELSE 0, row_len)
         \o HexImage(row_len, rows, r + 1)

HexLine(code, row_len, rows) ==
    [code |-> ToHex(code, 4), img |-> HexImage(row_len, rows, 0)]

SeqsUpTo(S, n) == UNION {[1 .. k -> S] : k \in 0 .. n}

\* space providers: the three of the merge example, and a filtered one
SpaceA == [type |-> "space", advances |-> (97 :> IntNum(4))]
SpaceB == [type |-> "space", advances |-> (97 :> IntNum(8)) @@ (98 :> FloatNum(6))]
SpaceC == [type |-> "space", advances |-> (99 :> IntNum(16))]
SpaceFiltered ==
    [type |-> "space", advances |-> (97 :> IntNum(12)) @@ (100 :> FloatNum(2)),
     filter |-> "F1"]
SpaceNegative == [type |-> "space", advances |-> (97 :> IntNum(-4))]

RefTo(id) == [type |-> "reference", id |-> id]
RefFiltered(id) == [type |-> "reference", id |-> id, filter |-> "F2"]

\* "A" drawn on columns 3 and 4 of row 8, a snowman on 16 columns
HexLines ==
    <<HexLine(65, 2, 8 :> 24), HexLine(9731, 4, (3 :> 4080) @@ (9 :> 1032))>>
Unihex == [type |-> "unihex", resource |-> HexLines]
UnihexFiltered == [type |-> "unihex", resource |-> HexLines, filter |-> "F1"]
UnihexOverride(left, right) ==
    [type |-> "unihex", resource |-> HexLines,
     size_overrides |-> <<[from |-> 65, to |-> 65, left |-> left, right |-> right]>>]

\* a sheet of two cells, 4 x 2 pixels each: "a" inked up to its third column,
\* the other cell a space
Sheet == [width |-> 8, height |-> 2, ink |-> {<<0, 0>>, <<2, 1>>}]
Bitmap(height) ==
    [type |-> "bitmap", chars |-> <<<<97, SPACE>>>>, height |-> height,
     resource |-> Sheet]

\* a grid with a row of no characters
BitmapEmptyRow ==
    [type |-> "bitmap", chars |-> <<<<97>>, <<>>>>, height |-> 8, resource |-> Sheet]

\* "b" 6 pixels wide, "c" 5.5 pixels wide
Ttf ==
    [type |-> "ttf", oversample |-> 1, skip |-> {},
     resource |-> (98 :> 6 * FixedPoint) @@ (99 :> 11 * (FixedPoint \div 2))]
TtfMissing == [type |-> "ttf", oversample |-> 1, skip |-> {}]

LegacyUnicode == [type |-> "legacy_unicode"]

StartConversion(pack, font, factor, mode) ==
    /\ files = pack
    /\ stack = <<Frame(font)>>
    /\ status = "running"
    /\ result = ""
    /\ written = <<>>
    /\ suffix = "_sp"
    /\ width_factor = factor
    /\ unihex_mode = mode
    /\ root = font
    /\ hex_img = <<>> /\ hex_width = 0
    /\ bmp_provider = None /\ bmp_result = None

\* font "a" holds up to MaxProviders providers, with and without filters,
\* "b" is a font it may refer to
MergeCatalogue ==
    {SpaceA, SpaceB, SpaceC, SpaceFiltered, RefTo("b"), RefFiltered("b"),
     Unihex, UnihexFiltered, LegacyUnicode}

InitMerge ==
    \E providers \in SeqsUpTo(MergeCatalogue, MaxProviders),
       config \in {<<2, "ascii">>, <<3, "none">>} :
        StartConversion(("a" :> providers) @@ ("b" :> <<SpaceC>>),
                        "a", config[1], config[2])

\* one or two providers of the kinds that convert to space providers, of
\* either sign, under factors of either sign
SignCatalogue ==
    {SpaceA, SpaceB, SpaceNegative, Ttf, Bitmap(2), Bitmap(0), Bitmap(-2),
     Unihex, UnihexOverride(0, 5), UnihexOverride(3, 0), UnihexOverride(4, 0),
     UnihexOverride(5, 0)}

InitSign ==
    \E provider \in SignCatalogue, more \in SeqsUpTo(SignCatalogue, 1),
       factor \in {-2, 0, 1, 2}, filtered \in BOOLEAN :
        StartConversion(
            "a" :> <<IF filtered THEN [filter |-> "F1"] @@ provider ELSE provider>>
                   \o more,
            "a", factor, "all")

\* hex files over codepoints on both sides of the limit, with and without
\* size overrides on them, in every mode
UnihexCodes == {65, AsciiLimit, AsciiLimit + 1, 9731}
UnihexOverrides ==
    {<<>>,
     <<[from |-> 9731, to |-> 9731, left |-> 0, right |-> 5]>>,
     <<[from |-> AsciiLimit, to |-> AsciiLimit + 1, left |-> 1, right |-> 2]>>,
     <<[from |-> NUL, to |-> NUL, left |-> 0, right |-> 7],
       [from |-> 60, to |-> 9999, left |-> 0, right |-> 3]>>}

RECURSIVE LinesOf(_)
LinesOf(codes) ==
    IF codes = {} THEN <<>>
    ELSE LET code == Min(codes)
         IN  <<HexLine(code, 2, IF code = 65 THEN <<>> ELSE 8 :> 24)>>
             \o LinesOf(codes \ {code})

InitUnihex ==
    \E codes \in SUBSET UnihexCodes, overrides \in UnihexOverrides,
       mode \in {"none", "ascii", "all_named", "all"},
       others \in {<<>>, <<SpaceA>>, <<RefTo("b")>>} :
        StartConversion(
            ("a" :> <<[type |-> "unihex", resource |-> LinesOf(codes),
                       size_overrides |-> overrides]>> \o others)
            @@ ("b" :> <<>>),
            "a", 2, mode)

\* fonts "a", "b", "c" that refer to each other, to themselves or to nothing;
\* "c" may be missing, name a file that is missing or hold a malformed grid,
\* and "a_sp" may be there from an earlier run
GraphCatalogue == {RefTo("a"), RefTo("b"), RefTo("c"), SpaceA, LegacyUnicode}
Stale == <<[type |-> "space", advances |-> (120 :> IntNum(36))]>>

InitGraph ==
    \E a \in SeqsUpTo(GraphCatalogue, 2),
       b \in SeqsUpTo(GraphCatalogue \ {LegacyUnicode}, 2),
       c \in {<<>>, <<SpaceB>>, <<RefTo("a")>>, <<RefTo("b")>>, <<RefTo("c")>>,
              <<TtfMissing>>, <<SpaceA, RefTo("b")>>, <<SpaceB, BitmapEmptyRow>>},
       c_exists \in BOOLEAN, stale \in BOOLEAN :
        StartConversion(
            ("a" :> a) @@ ("b" :> b)
            @@ (IF c_exists THEN "c" :> c ELSE <<>>)
            @@ (IF stale THEN "a_sp" :> Stale ELSE <<>>),
            "a", 2, "ascii")

Init == InitMerge \/ InitSign \/ InitUnihex \/ InitGraph

Spec == Init /\ [][Next]_vars

(***************************************************************************)
(* read_hex_bitmap on its own: glyphs of two inked rows                    *)
(***************************************************************************)
Idle ==
    /\ files = <<>> /\ stack = <<>> /\ result = "" /\ written = <<>>
    /\ suffix = "_sp" /\ unihex_mode = "ascii" /\ root = ""

RowPattern(row_len, pattern, shift) == (pattern * Pow2(shift)) % Pow2(4 * row_len)

InitHex ==
    \E row_len \in 1 .. MaxRowLen, at \in {<<0, 15>>, <<8, 9>>, <<3, 8>>} :
    \E p1, p2 \in 0 .. MaxPattern, s1, s2 \in 0 .. 4 * row_len - 1 :
        /\ Idle
        /\ status = "running"
        /\ width_factor = 2
        /\ hex_img = HexImage(row_len,
                              (at[1] :> RowPattern(row_len, p1, s1))
                              @@ (at[2] :> RowPattern(row_len, p2, s2)), 0)
        /\ hex_width = 0
        /\ bmp_provider = None /\ bmp_result = None

ReadHexBitmap ==
    /\ status = "running" /\ hex_img # <<>>
    /\ hex_width' = read_hex_bitmap(hex_img)
    /\ status' = "done"
    /\ UNCHANGED <<files, stack, result, written, suffix, width_factor,
                   unihex_mode, root, hex_img, bmpVars>>

SpecHex == InitHex /\ [][ReadHexBitmap]_vars

(***************************************************************************)
(* convert_bitmap_provider on its own: sheets of a few inked pixels        *)
(***************************************************************************)
BitmapGrids ==
    {<<<<97>>>>, <<<<97, 98>>>>, <<<<97>>, <<98>>>>, <<<<NUL, 98>>, <<97, SPACE>>>>,
     <<<<97, 97>>>>, <<<<97>>, <<>>>>}

InitBitmap ==
    \E chars \in BitmapGrids, width \in 1 .. 2 * MaxCellWidth, height \in 1 .. 2,
       logical \in -2 .. MaxHeight, factor \in {2, 3} :
    \E ink \in SUBSET ((0 .. width - 1) \X (0 .. height - 1)) :
        /\ Cardinality(ink) <= MaxInk
        /\ Idle
        /\ status = "running"
        /\ width_factor = factor
        /\ hex_img = <<>> /\ hex_width = 0
        /\ bmp_provider = [type |-> "bitmap", chars |-> chars, height |-> logical,
                           resource |-> [width |-> width, height |-> height,
                                         ink |-> ink]]
        /\ bmp_result = None

ConvertBitmap ==
    /\ status = "running" /\ bmp_provider # None
    /\ bmp_result' = convert_bitmap_provider(bmp_provider, width_factor)
    /\ status' = "done"
    /\ UNCHANGED <<files, stack, result, written, suffix, width_factor,
                   unihex_mode, root, hexVars, bmp_provider>>

SpecBitmap == InitBitmap /\ [][ConvertBitmap]_vars

(***************************************************************************)
(* Properties of read_hex_bitmap                                           *)
(***************************************************************************)
\* whether bit column c (0 is the rightmost) of row r is set, read off the digits
InkAt(img, row_len, r, c) ==
    (img[(r + 1) * row_len - (c \div 4)] \div Pow2(c % 4)) % 2 = 1

InkColumns(img) ==
    LET row_len == Len(img) \div HexRows
    IN  {c \in 0 .. 4 * row_len - 1 :
            \E r \in 0 .. HexRows - 1 : InkAt(img, row_len, r, c)}

\* C9: read_hex_bitmap returns 0 for a glyph without ink and otherwise the
\* number of bit columns from the leftmost to the rightmost set bit of any row,
\* which lies between 1 and 4 * row_len
C9_HexBitmapExtent ==
    status = "done" /\ hex_img # <<>> =>
        LET columns == InkColumns(hex_img)
        IN  IF columns = {} THEN hex_width = 0
            ELSE /\ hex_width = Max(columns) - Min(columns) + 1
                 /\ 1 <= hex_width
                 /\ hex_width <= 4 * (Len(hex_img) \div HexRows)

\* only row 8 inked, with 0x18: the extent is 2
C9_Witness ==
    /\ status = "done"
    /\ hex_img = HexImage(2, 8 :> 24, 0)
    /\ hex_width = 2

(***************************************************************************)
(* Properties of convert_bitmap_provider                                   *)
(***************************************************************************)
\* the integer next to n / d on the side of zero, for d > 0
TowardZero(n, d) ==
    CHOOSE t \in -(n * n + 1) .. n * n + 1 :
        IF n >= 0 THEN d * t <= n /\ n < d * (t + 1)
        ELSE d * (t - 1) < n /\ n <= d * t

\* 1 + the offset of the rightmost column of cell (x, y) that holds ink, or 0
InkWidth(img, x, y, cell_width, cell_height) ==
    LET inked == {i \in 0 .. cell_width - 1 :
                     \E j \in 0 .. cell_height - 1 :
                        <<x * cell_width + i, y * cell_height + j>> \in img.ink /\
                        \A k \in i + 1 .. cell_width - 1, l \in 0 .. cell_height - 1 :
                            <<x * cell_width + k, y * cell_height + l>> \notin img.ink}
    IN  IF inked = {} THEN 0 ELSE (CHOOSE i \in inked : TRUE) + 1

\* C10: every cell whose character is neither NUL nor space sets the advance
\* (trunc(0.5 + w * height / cell_height) + 1) * factor, w being 1 + the offset
\* of the rightmost inked column of the cell, or 0; NUL and space get no entry
C10_BitmapAdvance ==
    status = "done" /\ bmp_provider # None =>
        LET chars == bmp_provider.chars
            img == bmp_provider.resource
            cell_height == img.height \div Len(chars)
            cells == UNION {{y} \X (1 .. Len(chars[y])) : y \in 1 .. Len(chars)}
            glyphs == {c \in cells : chars[c[1]][c[2]] \notin {NUL, SPACE}}
        IN  IF cell_height = 0 \/ \E y \in 1 .. Len(chars) : Len(chars[y]) = 0
            THEN TRUE
            ELSE /\ bmp_result.type = "space"
                 /\ DOMAIN bmp_result.advances = {chars[c[1]][c[2]] : c \in glyphs}
                 /\ \A c \in glyphs :
                      \* the cell that sets this character last
                      (\A d \in glyphs :
                          chars[d[1]][d[2]] = chars[c[1]][c[2]] =>
                              d[1] < c[1] \/ (d[1] = c[1] /\ d[2] <= c[2]))
                      => LET cell_width == img.width \div Len(chars[c[1]])
                             w == InkWidth(img, c[2] - 1, c[1] - 1,
                                           cell_width, cell_height)
                             rounded == TowardZero(
                                 cell_height + 2 * w * bmp_provider.height,
                                 2 * cell_height)
                         IN  /\ bmp_result.advances[chars[c[1]][c[2]]].q
                                  = 2 * (rounded + 1) * width_factor
                             /\ w = 0 =>
                                  bmp_result.advances[chars[c[1]][c[2]]].q
                                      = 2 * width_factor

\* ink on columns 0 and 4 of a cell as high as the provider's height, factor 1:
\* the advance is 6
C10_Witness ==
    /\ status = "done" /\ bmp_provider # None
    /\ bmp_provider.chars = <<<<97>>>>
    /\ bmp_provider.resource.ink = {<<0, 0>>, <<4, 0>>}
    /\ bmp_provider.resource.height = bmp_provider.height
    /\ width_factor = 2
    /\ bmp_result.advances[97] = FloatNum(24)

(***************************************************************************)
(* Properties of convert_font                                              *)
(***************************************************************************)
WrittenSet == {written[j] : j \in 1 .. Len(written)}

\* the fonts whose conversion has been written in this run
Converted == {f \in DOMAIN files : new_font_id(f) \in WrittenSet}

\* what a source provider converts to, before any normalisation
Expected(p) ==
    IF p.type = "reference" THEN reference_provider(new_font_id(p.id))
    ELSE convert_provider(p, unihex_mode, width_factor)

\* the source providers that convert to a provider, those of them that stay on
\* their own, and those that are merged
Kept(old) == {i \in 1 .. Len(old) : Expected(old[i]) # None}
Standalone(old) ==
    {i \in Kept(old) : "filter" \in DOMAIN old[i] \/ Expected(old[i]).type # "space"}
Merged(old) == Kept(old) \ Standalone(old)
PlaceOf(old, i) == Cardinality({j \in Standalone(old) : j <= i})

Values(advances) == [k \in DOMAIN advances |-> advances[k].q]

SameContent(out, conv) ==
    /\ out.type = conv.type
    /\ conv.type = "space" => Values(out.advances) = Values(conv.advances)
    /\ conv.type = "reference" => out.id = conv.id

\* C1: the definition written is the standalone providers in source order,
\* then, iff a filter-less provider converted to a space provider, one space
\* provider holding the union of their advances, the later source winning
C1_ProviderLayout ==
    \A f \in Converted :
        LET old == files[f]
            out == files[new_font_id(f)]
            merged == Merged(old)
        IN  /\ Len(out) = Cardinality(Standalone(old))
                          + (IF merged = {} THEN 0 ELSE 1)
            /\ \A i \in Standalone(old) :
                  SameContent(out[PlaceOf(old, i)], Expected(old[i]))
            /\ merged # {} =>
                  LET last == out[Len(out)]
                  IN  /\ last.type = "space"
                      /\ "filter" \notin DOMAIN last
                      /\ DOMAIN last.advances =
                            UNION {DOMAIN Expected(old[i]).advances : i \in merged}
                      /\ \A k \in DOMAIN last.advances :
                            LET from == Max({i \in merged :
                                    k \in DOMAIN Expected(old[i]).advances})
                            IN  last.advances[k].q
                                    = Expected(old[from]).advances[k].q

\* two filter-less space sources with a key in common around a reference
C1_Witness ==
    /\ status = "done"
    /\ files["a"] = <<SpaceA, RefTo("b"), SpaceB>>
    /\ Len(files["a_sp"]) = 2
    /\ files["a_sp"][1].type = "reference"
    /\ Values(files["a_sp"][2].advances) = (97 :> 8) @@ (98 :> 6)

\* C2: a source provider with a filter that converts to a provider is an entry
\* of its own with that filter; its advances are its own alone, and none of
\* them is in the merged space provider
C2_FilteredStandalone ==
    \A f \in Converted :
        LET old == files[f]
            out == files[new_font_id(f)]
            filtered == {i \in Kept(old) : "filter" \in DOMAIN old[i]}
        IN  /\ \A i \in filtered :
                  LET entry == out[PlaceOf(old, i)]
                  IN  /\ "filter" \in DOMAIN entry
                      /\ entry.filter = old[i].filter
                      /\ SameContent(entry, Expected(old[i]))
            /\ Cardinality({n \in 1 .. Len(out) : "filter" \in DOMAIN out[n]})
                  = Cardinality(filtered)
            /\ \A n \in 1 .. Len(out) :
                  out[n].type = "space" /\ "filter" \notin DOMAIN out[n] =>
                      \A k \in DOMAIN out[n].advances :
                          \E i \in Kept(old) \ filtered :
                              /\ Expected(old[i]).type = "space"
                              /\ k \in DOMAIN Expected(old[i]).advances
                              /\ Expected(old[i]).advances[k].q = out[n].advances[k].q

\* a filtered space source between two filter-less ones
C2_Witness ==
    /\ status = "done"
    /\ files["a"] = <<SpaceA, SpaceFiltered, SpaceB>>
    /\ Len(files["a_sp"]) = 2
    /\ files["a_sp"][1].filter = "F1"
    /\ DOMAIN files["a_sp"][1].advances = {97, 100}
    /\ DOMAIN files["a_sp"][2].advances = {97, 98}

\* C3: when font + suffix is written, R + suffix has been written for every
\* font R it refers to, and the reference written points at R + suffix
C3_ReferencedFirst ==
    \A j \in 1 .. Len(written) : \A f \in DOMAIN files :
        written[j] = new_font_id(f) =>
            \A i \in 1 .. Len(files[f]) :
                files[f][i].type = "reference" =>
                    LET target == new_font_id(files[f][i].id)
                        entry == files[new_font_id(f)][PlaceOf(files[f], i)]
                    IN  /\ \E k \in 1 .. j - 1 : written[k] = target
                        /\ target \in DOMAIN files
                        /\ entry.type = "reference"
                        /\ entry.id = target

\* "a" refers to "b", which refers to "c"
C3_Witness ==
    /\ status = "done"
    /\ files["a"] = <<RefTo("b")>>
    /\ files["b"] = <<SpaceA, RefTo("c")>>
    /\ written = <<"c_sp", "b_sp", "a_sp">>
    /\ files["a_sp"] = <<RefTo("b_sp")>>

ProviderFails(p) ==
    /\ p.type # "reference"
    /\ IsError(convert_provider(p, unihex_mode, width_factor))

\* C4: a step that writes anything is the write of font + suffix by a call
\* that has converted every provider of the font without failure, and it
\* writes nothing else; so a call that fails has written nothing under its id
C4_WriteAfterAllConverted ==
    [][(files' # files \/ written' # written) =>
          /\ stack # <<>>
          /\ Top.pc = "loop"
          /\ Top.i = Len(Top.old_providers) + 1
          /\ \A k \in 1 .. Len(Top.old_providers) :
                /\ ~ProviderFails(Top.old_providers[k])
                /\ Top.old_providers[k].type = "reference" =>
                      new_font_id(Top.old_providers[k].id) \in WrittenSet
          /\ Len(Top.space_providers) + Len(Top.other_providers)
                = Cardinality(Kept(Top.old_providers))
          /\ written' = Append(written, new_font_id(Top.font_id))
          /\ DOMAIN files' = DOMAIN files \cup {new_font_id(Top.font_id)}
          /\ \A id \in DOMAIN files :
                id # new_font_id(Top.font_id) => files'[id] = files[id]
          /\ status' \in {"running", "done"}]_vars

\* a call fails after it has converted a provider, and its id is not there
C4_Witness ==
    /\ status = "error"
    /\ stack # <<>>
    /\ Top.pc = "loop"
    /\ Len(Top.space_providers) + Len(Top.other_providers) >= 1
    /\ ProviderFails(Top.old_providers[Top.i])
    /\ new_font_id(Top.font_id) \notin DOMAIN files
    /\ written # <<>>

\* the codepoints of a hex file, and whether a size override covers one
HexCodes(p) == {HexVal(p.resource[n].code) : n \in 1 .. Len(p.resource)}
Covered(p, c) ==
    /\ "size_overrides" \in DOMAIN p
    /\ \E n \in 1 .. Len(p.size_overrides) :
          p.size_overrides[n].from <= c /\ c <= p.size_overrides[n].to

\* whether the mode lets codepoint c of unihex provider p through
Included(p, c) ==
    \/ unihex_mode = "all"
    \/ unihex_mode = "ascii" /\ c <= AsciiLimit
    \/ unihex_mode = "all_named" /\ (c <= AsciiLimit \/ Covered(p, c))

\* C5: for a font whose advances all come from one unihex provider, the
\* advances written are those of the codepoints the mode includes; in mode none,
\* or when no codepoint is included, no space provider is written
C5_UnihexModes ==
    \A f \in Converted :
        LET old == files[f]
            out == files[new_font_id(f)]
            spaces == {n \in 1 .. Len(out) : out[n].type = "space"}
        IN  (/\ Len(old) >= 1
             /\ old[1].type = "unihex"
             /\ \A i \in 2 .. Len(old) : old[i].type = "reference") =>
                LET included == {c \in HexCodes(old[1]) : Included(old[1], c)}
                IN  IF unihex_mode = "none" \/ included = {}
                    THEN spaces = {}
                    ELSE /\ Cardinality(spaces) = 1
                         /\ \A n \in spaces : DOMAIN out[n].advances = included

\* mode all_named keeps a codepoint above the limit that an override covers
\* and drops one that none covers
C5_Witness ==
    /\ status = "done"
    /\ unihex_mode = "all_named"
    /\ files["a"][1].type = "unihex"
    /\ HexCodes(files["a"][1]) = {65, AsciiLimit + 1, 9731}
    /\ Len(files["a_sp"]) = 1
    /\ DOMAIN files["a_sp"][1].advances = {65, 9731}

\* C6: in every definition written, a space provider holds a whole advance as
\* an int and any other as a float, each with the value its source converted
\* to; a reference provider is as convert_reference_provider made it
C6_WholeAdvancesAreInts ==
    \A f \in Converted :
        LET old == files[f]
            out == files[new_font_id(f)]
        IN  \A n \in 1 .. Len(out) :
                /\ out[n].type = "space" =>
                      \A k \in DOMAIN out[n].advances :
                          LET v == out[n].advances[k]
                          IN  /\ v.repr = (IF v.q % 4 = 0 THEN "int" ELSE "float")
                              /\ \E i \in Kept(old) :
                                    /\ Expected(old[i]).type = "space"
                                    /\ k \in DOMAIN Expected(old[i]).advances
                                    /\ Expected(old[i]).advances[k].q = v.q
                /\ out[n].type # "space" =>
                      /\ out[n].type = "reference"
                      /\ DOMAIN out[n] \ {"filter"} = {"type", "id"}

\* whole and fractional advances, merged and filtered, next to a reference
C6_Witness ==
    /\ status = "done"
    /\ width_factor = 2
    /\ files["a"] = <<SpaceB, SpaceFiltered, RefTo("b")>>
    /\ files["a_sp"][1].advances = (97 :> IntNum(12)) @@ (100 :> FloatNum(2))
    /\ files["a_sp"][2] = RefTo("b_sp")
    /\ files["a_sp"][3].advances = (97 :> IntNum(8)) @@ (98 :> FloatNum(6))

\* C7 as stated: no advance written is negative
C7_NeverNegative ==
    \A id \in WrittenSet : \A n \in 1 .. Len(files[id]) :
        files[id][n].type = "space" =>
            \A k \in DOMAIN files[id][n].advances : files[id][n].advances[k].q >= 0

\* a source provider that asks for no negative width
NonNegativeSource(p) ==
    CASE p.type = "space" -> \A k \in DOMAIN p.advances : p.advances[k].q >= 0
      [] p.type = "bitmap" -> p.height >= 0
      [] p.type = "ttf" ->
            /\ p.oversample > 0
            /\ "resource" \in DOMAIN p =>
                  \A c \in DOMAIN p.resource : p.resource[c] >= 0
      [] p.type = "unihex" ->
            "size_overrides" \in DOMAIN p =>
                \A n \in 1 .. Len(p.size_overrides) :
                    \/ p.size_overrides[n].from = 0 /\ p.size_overrides[n].to = 0
                    \/ p.size_overrides[n].right - p.size_overrides[n].left + 1 >= -3
      [] OTHER -> TRUE

\* C7, amended: no advance written for a font is negative when the factor is
\* not negative and no source provider of the font asks for a negative width
C7_NonNegativeFromNonNegative ==
    \A f \in Converted :
        (/\ width_factor >= 0
         /\ \A i \in 1 .. Len(files[f]) : NonNegativeSource(files[f][i])) =>
            \A n \in 1 .. Len(files[new_font_id(f)]) :
                LET entry == files[new_font_id(f)][n]
                IN  entry.type = "space" =>
                        \A k \in DOMAIN entry.advances : entry.advances[k].q >= 0

\* a size override three columns narrower than nothing: the advance is 0
C7_Witness ==
    /\ status = "done"
    /\ width_factor = 2
    /\ files["a"] = <<UnihexOverride(4, 0)>>
    /\ files["a_sp"][1].advances[65] = IntNum(0)

(***************************************************************************)
(* Termination: the program is one thread that runs until it returns or    *)
(* raises, so a step that can be taken is taken                            *)
(***************************************************************************)
SpecLive == InitGraph /\ [][Next]_vars /\ WF_vars(Next)

\* the fonts a font refers to, and those it reaches through references
Refs(g) ==
    IF g \in DOMAIN files
    THEN {files[g][n].id : n \in {m \in 1 .. Len(files[g]) :
                                     files[g][m].type = "reference"}}
    ELSE {}

RECURSIVE Closure(_, _)
Closure(S, n) ==
    IF n = 0 THEN S ELSE Closure(S \cup UNION {Refs(g) : g \in S}, n - 1)

Descendants(f) == Closure(Refs(f), Cardinality(DOMAIN files))
OnCycle(f) == f \in Descendants(f)
Acyclic(f) == \A g \in {f} \cup Descendants(f) : ~OnCycle(g)

\* every font reached is there and none of its providers fails
NoFailure(f) ==
    \A g \in {f} \cup Descendants(f) :
        /\ g \in DOMAIN files
        /\ \A n \in 1 .. Len(files[g]) : ~ProviderFails(files[g][n])

====
